---- MODULE Spec2Model ----
(***************************************************************************)
(* A model of the simulation core of pacman.py: the tile grid, the player  *)
(* and pursuer movement, the scatter/chase scheduler, collisions, scoring  *)
(* and the game-state machine driven by Game.update and handle_events.     *)
(* Positions are integer pixels, directions are pairs <<dx, dy>>.          *)
(***************************************************************************)
EXTENDS Integers, Sequences, FiniteSets, TLC

VARIABLES state, ready_timer, level_flash_timer, score, high_score, lives,
          level, dots_eaten, total_dots, ghost_eat_combo, mode, mode_timer,
          maze, pacman, ghosts, fruit, fruit_spawned, floating_scores,
          budget, walk

vars == <<state, ready_timer, level_flash_timer, score, high_score, lives,
          level, dots_eaten, total_dots, ghost_eat_combo, mode, mode_timer,
          maze, pacman, ghosts, fruit, fruit_spawned, floating_scores,
          budget, walk>>

----------------------------------------------------------------------------
(* Constants of the program *)

TILE == 24

COLS == 28

FPS == 60

MAZE_OFFSET_Y == 4 * TILE

UP == <<0, -1>>

DOWN == <<0, 1>>

LEFT == <<-1, 0>>

RIGHT == <<1, 0>>

STOP == <<0, 0>>

\* the enumeration order used by Ghost.update
DIRS4 == <<UP, LEFT, DOWN, RIGHT>>

\* GhostState (src 48-53) and GameState (src 56-62) as strings
GhostState == {"SCATTER", "CHASE", "FRIGHTENED", "EATEN", "IN_HOUSE"}

GameState == {"READY", "PLAYING", "DYING", "GAME_OVER", "WIN", "LEVEL_COMPLETE"}

\* Ghost.NAMES, the order in which Game.update visits the pursuers
NAMES == <<"blinky", "pinky", "inky", "clyde">>

GhostNames == {NAMES[i] : i \in 1..Len(NAMES)}

\* the layout, rows top to bottom: 1 wall, 0 dot, 3 power pellet, 4 empty,
\* 5 ghost house wall, 7 tunnel
CLASSIC_MAZE ==
  << <<1,1,1,1,1,1,1,1,1,1,1,1,1,1,1,1,1,1,1,1,1,1,1,1,1,1,1,1>>,
     <<1,0,0,0,0,0,0,0,0,0,0,0,1,1,1,0,0,0,0,0,0,0,0,0,0,0,0,1>>,
     <<1,0,1,1,1,0,1,1,1,1,0,0,1,1,1,0,0,1,1,1,1,0,1,1,1,0,0,1>>,
     <<1,3,1,1,1,0,0,0,0,0,0,0,0,0,0,0,0,0,0,0,0,0,0,1,3,0,0,1>>,
     <<1,0,1,1,1,0,1,0,1,1,1,1,1,1,1,1,1,0,1,0,1,1,1,0,1,0,0,1>>,
     <<1,0,0,0,0,0,0,0,1,0,0,0,1,1,1,0,0,1,0,0,0,0,0,0,0,0,0,1>>,
     <<1,0,1,1,1,0,1,1,1,0,0,1,1,1,1,0,0,1,1,1,0,1,1,1,0,0,0,1>>,
     <<1,0,1,1,1,0,0,0,0,0,0,0,1,1,1,0,0,0,0,0,0,0,1,1,0,0,0,1>>,
     <<1,0,0,0,0,0,1,0,1,1,1,0,4,4,0,1,0,1,1,0,1,0,0,0,0,0,0,1>>,
     <<1,1,1,1,0,0,1,0,1,0,0,4,4,0,4,0,0,1,0,1,0,0,1,1,1,1,1,1>>,
     <<7,7,7,0,0,0,1,0,1,0,5,5,5,5,5,5,0,1,0,1,0,0,0,0,7,7,7,0>>,
     <<1,1,1,1,0,0,1,0,0,0,5,0,0,0,0,5,0,0,0,1,0,0,1,1,1,1,1,1>>,
     <<7,7,7,0,0,0,1,0,1,0,5,0,0,0,0,5,0,1,0,1,0,0,0,0,7,7,7,0>>,
     <<1,1,1,1,0,0,1,0,1,0,5,5,5,5,5,5,0,1,0,1,0,0,1,1,1,1,1,1>>,
     <<4,4,4,4,0,0,0,0,0,0,0,4,4,0,4,0,0,0,0,0,0,0,0,0,4,4,4,4>>,
     <<1,1,1,1,0,0,1,0,1,1,1,1,1,1,1,1,1,0,1,0,0,1,1,1,1,1,1,1>>,
     <<1,0,0,0,0,0,0,0,0,0,0,0,1,1,1,0,0,0,0,0,0,0,0,0,0,0,0,1>>,
     <<1,0,1,1,1,0,1,1,1,1,0,0,1,1,1,0,0,1,1,1,1,0,1,1,1,0,0,1>>,
     <<1,3,0,0,1,0,0,0,0,0,0,0,0,4,0,0,0,0,0,0,0,0,0,1,0,0,3,1>>,
     <<1,1,1,0,1,0,1,0,1,1,1,1,1,1,1,1,1,0,1,0,1,1,0,1,0,1,1,1>>,
     <<1,0,0,0,0,0,0,0,1,0,0,0,1,1,1,0,0,1,0,0,0,0,0,0,0,0,0,1>>,
     <<1,0,1,1,1,1,1,1,1,0,0,1,1,1,1,0,0,1,1,1,1,1,1,1,0,0,0,1>>,
     <<1,0,0,0,0,0,0,0,0,0,0,0,0,0,0,0,0,0,0,0,0,0,0,0,0,0,0,1>>,
     <<1,1,1,1,1,1,1,1,1,1,1,1,1,1,1,1,1,1,1,1,1,1,1,1,1,1,1,1>> >>

MAZE_ROWS == Len(CLASSIC_MAZE)

\* build_maze: a fresh grid, maze[row][col] with rows and columns from 0
build_maze == [r \in 0..(MAZE_ROWS - 1) |-> [c \in 0..(COLS - 1) |-> CLASSIC_MAZE[r + 1][c + 1]]]

\* grid cell -> pixel centre
grid_to_pixel(col, row) == <<col * TILE + TILE \div 2, row * TILE + MAZE_OFFSET_Y + TILE \div 2>>

\* pixel -> grid cell (floor division)
pixel_to_grid(x, y) == <<x \div TILE, (y - MAZE_OFFSET_Y) \div TILE>>

\* can_move, had it let house walls through
can_move_walls(m, col, row) ==
  IF row < 0 \/ row >= MAZE_ROWS THEN FALSE
  ELSE IF col < 0 \/ col >= COLS THEN TRUE
  ELSE m[row][col] # 1

can_move(m, col, row) ==
  IF row < 0 \/ row >= MAZE_ROWS THEN FALSE
  ELSE IF col < 0 \/ col >= COLS THEN TRUE
  ELSE m[row][col] # 1 /\ m[row][col] # 5

Abs(n) == IF n < 0 THEN -n ELSE n

Neg(d) == <<-d[1], -d[2]>>

\* TunnelWrap, had it wrapped at the edges of the grid
TunnelWrap_edge(x) ==
  IF x < 0 THEN COLS * TILE
  ELSE IF x > COLS * TILE THEN 0
  ELSE x

\* the horizontal wrap applied by PacMan.update and Ghost.update after a move
TunnelWrap(x) ==
  IF x < -(TILE \div 2) THEN COLS * TILE + TILE \div 2
  ELSE IF x > COLS * TILE + TILE \div 2 THEN -(TILE \div 2)
  ELSE x

----------------------------------------------------------------------------
(* PacMan *)

PAC_SPEED == 2

\* PacMan.reset
PacManReset(col, row) ==
  [x |-> grid_to_pixel(col, row)[1], y |-> grid_to_pixel(col, row)[2],
   dir |-> STOP, next_dir |-> STOP, speed |-> PAC_SPEED, alive |-> TRUE,
   death_frame |-> 0]

\* PacMan.update (the mouth animation is presentation and is left out)
PacManUpdate(p, m) ==
  IF ~p.alive THEN p
  ELSE
    LET c == pixel_to_grid(p.x, p.y)
        px == grid_to_pixel(c[1], c[2])
        at_center == Abs(p.x - px[1]) <= p.speed /\ Abs(p.y - px[2]) <= p.speed
        x0 == IF at_center THEN px[1] ELSE p.x
        y0 == IF at_center THEN px[2] ELSE p.y
        d1 == IF at_center /\ can_move(m, c[1] + p.next_dir[1], c[2] + p.next_dir[2])
              THEN p.next_dir ELSE p.dir
        d2 == IF at_center /\ ~can_move(m, c[1] + d1[1], c[2] + d1[2])
              THEN STOP ELSE d1
    IN [p EXCEPT !.x = TunnelWrap(x0 + d2[1] * p.speed),
                 !.y = y0 + d2[2] * p.speed,
                 !.dir = d2]
----------------------------------------------------------------------------
(* Ghost *)

GHOST_SPEED == 2

FRIGHTENED_SPEED == 1

EATEN_SPEED == 4

\* abs(self.x - tx) < 5 and abs(self.y - ty) < 5 in Ghost.update
HOME_TOLERANCE == 5

SCATTER_TARGETS ==
  [n \in GhostNames |->
     CASE n = "blinky" -> <<25, 0>>
       [] n = "pinky" -> <<2, 0>>
       [] n = "inky" -> <<27, 23>>
       [] n = "clyde" -> <<0, 23>>]

release_dots ==
  [n \in GhostNames |->
     CASE n = "blinky" -> 0
       [] n = "pinky" -> 7
       [] n = "inky" -> 17
       [] n = "clyde" -> 32]

\* sin(anim_timer * 0.1) * 5 in Ghost.update: the offset of a pursuer bobbing
\* in the house swings between -BOB and BOB. anim_timer only feeds this offset
\* and the drawing, so the model leaves it out and lets the offset of a tick be
\* either end of the swing or its middle
BOB == 5

Bobs == {-BOB, 0, BOB}

\* Ghost.reset, for the pursuer built by Ghost(name, col, row, house_col, house_row)
GhostReset(name, col, row, house_col, house_row) ==
  [name |-> name, start_col |-> col, start_row |-> row,
   house_col |-> house_col, house_row |-> house_row,
   x |-> grid_to_pixel(col, row)[1], y |-> grid_to_pixel(col, row)[2],
   dir |-> UP, speed |-> GHOST_SPEED,
   state |-> IF name # "blinky" THEN "IN_HOUSE" ELSE "SCATTER",
   frightened_timer |-> 0]

\* get_target, had clyde kept away from the player up to a distance of 9 cells
get_target_shy(g, pac, blinky_pos) ==
  LET pc == pixel_to_grid(pac.x, pac.y)
      own == pixel_to_grid(g.x, g.y)
  IN CASE g.state = "SCATTER" -> SCATTER_TARGETS[g.name]
       [] g.state = "FRIGHTENED" -> <<0, 0>>
       [] g.state = "EATEN" -> <<g.house_col, g.house_row>>
       [] OTHER ->
          CASE g.name = "blinky" -> pc
            [] g.name = "pinky" -> <<pc[1] + pac.dir[1] * 4, pc[2] + pac.dir[2] * 4>>
            [] g.name = "inky" ->
               LET ahead == <<pc[1] + pac.dir[1] * 2, pc[2] + pac.dir[2] * 2>>
               IN <<ahead[1] + (ahead[1] - blinky_pos[1]),
                    ahead[2] + (ahead[2] - blinky_pos[2])>>
            [] OTHER ->
               IF (pc[1] - own[1]) * (pc[1] - own[1])
                  + (pc[2] - own[2]) * (pc[2] - own[2]) > 9 * 9
               THEN pc ELSE SCATTER_TARGETS["clyde"]

\* Ghost.get_target; the random tile of the FRIGHTENED branch is never read by
\* Ghost.update, which draws the direction itself, and is given as <<0, 0>>
get_target(g, pac, blinky_pos) ==
  LET pc == pixel_to_grid(pac.x, pac.y)
      own == pixel_to_grid(g.x, g.y)
  IN CASE g.state = "SCATTER" -> SCATTER_TARGETS[g.name]
       [] g.state = "FRIGHTENED" -> <<0, 0>>
       [] g.state = "EATEN" -> <<g.house_col, g.house_row>>
       [] OTHER ->
          CASE g.name = "blinky" -> pc
            [] g.name = "pinky" -> <<pc[1] + pac.dir[1] * 4, pc[2] + pac.dir[2] * 4>>
            [] g.name = "inky" ->
               LET ahead == <<pc[1] + pac.dir[1] * 2, pc[2] + pac.dir[2] * 2>>
               IN <<ahead[1] + (ahead[1] - blinky_pos[1]),
                    ahead[2] + (ahead[2] - blinky_pos[2])>>
            [] OTHER ->
               \* clyde: sqrt(d2) > 8 is d2 > 64 on integers
               IF (pc[1] - own[1]) * (pc[1] - own[1])
                  + (pc[2] - own[2]) * (pc[2] - own[2]) > 8 * 8
               THEN pc ELSE SCATTER_TARGETS["clyde"]

\* FilteredDirs, had it let the pursuer reverse
FilteredDirs_any(g, m, cx, cy) ==
  SelectSeq(DIRS4, LAMBDA d :
     /\ can_move(m, cx + d[1], cy + d[2])
     /\ ~(IF 0 <= cy + d[2] /\ cy + d[2] < MAZE_ROWS /\ 0 <= cx + d[1] /\ cx + d[1] < COLS
          THEN m[cy + d[2]][(cx + d[1]) % COLS] = 5 ELSE FALSE))

\* the first enumeration of Ghost.update: no reversing unless frightened, and
\* only cells that can be entered
FilteredDirs(g, m, cx, cy) ==
  SelectSeq(DIRS4, LAMBDA d :
     /\ ~(d = Neg(g.dir) /\ g.state # "FRIGHTENED")
     /\ can_move(m, cx + d[1], cy + d[2])
     /\ ~(IF 0 <= cy + d[2] /\ cy + d[2] < MAZE_ROWS /\ 0 <= cx + d[1] /\ cx + d[1] < COLS
          THEN m[cy + d[2]][(cx + d[1]) % COLS] = 5 ELSE FALSE))

\* the fallback enumeration: reversing allowed
FallbackDirs(m, cx, cy) ==
  SelectSeq(DIRS4, LAMBDA d : can_move(m, cx + d[1], cy + d[2]))

possible_dirs(g, m, cx, cy) ==
  IF FilteredDirs(g, m, cx, cy) # <<>> THEN FilteredDirs(g, m, cx, cy)
  ELSE FallbackDirs(m, cx, cy)

SqDist(a, b) == (a[1] - b[1]) * (a[1] - b[1]) + (a[2] - b[2]) * (a[2] - b[2])

\* BestDirFrom, had it kept the last candidate of smallest distance
RECURSIVE BestDirFrom_last(_, _, _, _, _, _, _)
BestDirFrom_last(ds, i, cx, cy, target, best_dir, best_dist) ==
  IF i > Len(ds) THEN best_dir
  ELSE LET dist == SqDist(<<cx + ds[i][1], cy + ds[i][2]>>, target)
       IN IF best_dist < 0 \/ dist <= best_dist
          THEN BestDirFrom_last(ds, i + 1, cx, cy, target, ds[i], dist)
          ELSE BestDirFrom_last(ds, i + 1, cx, cy, target, best_dir, best_dist)

\* the loop that keeps the first candidate of strictly smaller distance;
\* best_dist < 0 stands for float('inf')
RECURSIVE BestDirFrom(_, _, _, _, _, _, _)
BestDirFrom(ds, i, cx, cy, target, best_dir, best_dist) ==
  IF i > Len(ds) THEN best_dir
  ELSE LET dist == SqDist(<<cx + ds[i][1], cy + ds[i][2]>>, target)
       IN IF best_dist < 0 \/ dist < best_dist
          THEN BestDirFrom(ds, i + 1, cx, cy, target, ds[i], dist)
          ELSE BestDirFrom(ds, i + 1, cx, cy, target, best_dir, best_dist)

BestDir(ds, cx, cy, target) == BestDirFrom(ds, 1, cx, cy, target, ds[1], -1)

\* GhostTimers, had the end of the countdown always led to SCATTER
GhostTimers_scatter(g, md) ==
  LET ft == IF g.state = "FRIGHTENED" THEN g.frightened_timer - 1 ELSE g.frightened_timer
      st1 == IF g.state = "FRIGHTENED" /\ ft <= 0 THEN "SCATTER" ELSE g.state
      home == grid_to_pixel(g.house_col, g.house_row)
      arrived == st1 = "EATEN" /\ Abs(g.x - home[1]) < HOME_TOLERANCE
                               /\ Abs(g.y - home[2]) < HOME_TOLERANCE
  IN [g |-> IF arrived
            THEN [g EXCEPT !.frightened_timer = ft, !.x = home[1], !.y = home[2],
                           !.state = "SCATTER", !.speed = GHOST_SPEED]
            ELSE [g EXCEPT !.frightened_timer = ft, !.state = st1,
                           !.speed = IF st1 = "EATEN" THEN EATEN_SPEED
                                     ELSE IF st1 = "FRIGHTENED" THEN FRIGHTENED_SPEED
                                     ELSE GHOST_SPEED],
      done |-> arrived]

\* the state and speed a pursuer that is not in the house has once its
\* frightened countdown and its return home have been handled; done is the
\* early return of an EATEN pursuer that reached its house
GhostTimers(g, md) ==
  LET ft == IF g.state = "FRIGHTENED" THEN g.frightened_timer - 1 ELSE g.frightened_timer
      st1 == IF g.state = "FRIGHTENED" /\ ft <= 0
             THEN (IF md = "chase" THEN "CHASE" ELSE "SCATTER") ELSE g.state
      home == grid_to_pixel(g.house_col, g.house_row)
      arrived == st1 = "EATEN" /\ Abs(g.x - home[1]) < HOME_TOLERANCE
                               /\ Abs(g.y - home[2]) < HOME_TOLERANCE
  IN [g |-> IF arrived
            THEN [g EXCEPT !.frightened_timer = ft, !.x = home[1], !.y = home[2],
                           !.state = "SCATTER", !.speed = GHOST_SPEED]
            ELSE [g EXCEPT !.frightened_timer = ft, !.state = st1,
                           !.speed = IF st1 = "EATEN" THEN EATEN_SPEED
                                     ELSE IF st1 = "FRIGHTENED" THEN FRIGHTENED_SPEED
                                     ELSE GHOST_SPEED],
      done |-> arrived]

\* whether Ghost.update reaches random.choice for this pursuer, and over what
GhostAtCenter(g) ==
  LET c == pixel_to_grid(g.x, g.y)
      ctr == grid_to_pixel(c[1], c[2])
  IN Abs(g.x - ctr[1]) <= g.speed /\ Abs(g.y - ctr[2]) <= g.speed

\* the "Movement AI" part of Ghost.update; pick is the draw of random.choice
GhostMove(g, m, pac, blinky_pos, pick) ==
  LET c == pixel_to_grid(g.x, g.y)
      ctr == grid_to_pixel(c[1], c[2])
      at_center == GhostAtCenter(g)
      x0 == IF at_center THEN ctr[1] ELSE g.x
      y0 == IF at_center THEN ctr[2] ELSE g.y
      ds == possible_dirs(g, m, c[1], c[2])
      d == IF at_center /\ ds # <<>>
           THEN (IF g.state = "FRIGHTENED" THEN pick
                 ELSE BestDir(ds, c[1], c[2], get_target(g, pac, blinky_pos)))
           ELSE g.dir
  IN [g EXCEPT !.x = TunnelWrap(x0 + d[1] * g.speed),
               !.y = y0 + d[2] * g.speed,
               !.dir = d]

\* the directions random.choice may return for pursuer g in this update: the
\* candidates when a frightened pursuer decides, else nothing is drawn (UP
\* stands for "no draw")
Draws(g, m, md) ==
  LET t == GhostTimers(g, md).g
      c == pixel_to_grid(t.x, t.y)
      ds == possible_dirs(t, m, c[1], c[2])
  IN IF g.state # "IN_HOUSE" /\ ~GhostTimers(g, md).done /\ t.state = "FRIGHTENED"
        /\ GhostAtCenter(t) /\ ds # <<>>
     THEN {ds[i] : i \in 1..Len(ds)}
     ELSE {UP}

\* GhostUpdate, had the release put the pursuer one row above its anchor
GhostUpdate_door(g, m, pac, blinky_pos, md, dots, pick, bob) ==
  IF g.state = "IN_HOUSE"
  THEN LET center_y == grid_to_pixel(g.start_col, g.start_row)[2]
           ex == grid_to_pixel(g.house_col, g.house_row - 1)
       IN IF dots >= release_dots[g.name]
          THEN [g EXCEPT !.state = "SCATTER", !.x = ex[1], !.y = ex[2]]
          ELSE [g EXCEPT !.y = center_y + bob]
  ELSE IF GhostTimers(g, md).done THEN GhostTimers(g, md).g
  ELSE GhostMove(GhostTimers(g, md).g, m, pac, blinky_pos, pick)

\* GhostUpdate, had the release waited for the count to exceed the threshold
GhostUpdate_late(g, m, pac, blinky_pos, md, dots, pick, bob) ==
  IF g.state = "IN_HOUSE"
  THEN LET center_y == grid_to_pixel(g.start_col, g.start_row)[2]
           ex == grid_to_pixel(g.house_col, g.house_row - 3)
       IN IF dots > release_dots[g.name]
          THEN [g EXCEPT !.state = "SCATTER", !.x = ex[1], !.y = ex[2]]
          ELSE [g EXCEPT !.y = center_y + bob]
  ELSE IF GhostTimers(g, md).done THEN GhostTimers(g, md).g
  ELSE GhostMove(GhostTimers(g, md).g, m, pac, blinky_pos, pick)

\* Ghost.update
GhostUpdate(g, m, pac, blinky_pos, md, dots, pick, bob) ==
  IF g.state = "IN_HOUSE"
  THEN LET center_y == grid_to_pixel(g.start_col, g.start_row)[2]
           ex == grid_to_pixel(g.house_col, g.house_row - 3)
       IN IF dots >= release_dots[g.name]
          THEN [g EXCEPT !.state = "SCATTER", !.x = ex[1], !.y = ex[2]]
          ELSE [g EXCEPT !.y = center_y + bob]
  ELSE IF GhostTimers(g, md).done THEN GhostTimers(g, md).g
  ELSE GhostMove(GhostTimers(g, md).g, m, pac, blinky_pos, pick)
----------------------------------------------------------------------------
(* Fruit and FloatingScore *)

FRUIT_POINTS == <<100, 300, 500, 700, 1000>>

FRUIT_TIMER == 600

FRUIT_DISPLAY == 60

FLOAT_TIMER == 60

Min(a, b) == IF a < b THEN a ELSE b

\* self.fruit = None
NoFruit ==
  [present |-> FALSE, x |-> 0, y |-> 0, points |-> 0, timer |-> 0,
   active |-> FALSE, collected |-> FALSE, display_timer |-> 0]

\* Fruit.__init__
NewFruit(col, row, lvl) ==
  [present |-> TRUE, x |-> grid_to_pixel(col, row)[1], y |-> grid_to_pixel(col, row)[2],
   points |-> FRUIT_POINTS[Min(lvl, Len(FRUIT_POINTS) - 1) + 1],
   timer |-> FRUIT_TIMER, active |-> TRUE, collected |-> FALSE, display_timer |-> 0]

\* Fruit.update
FruitTick(f) ==
  IF ~f.active
  THEN (IF f.collected /\ f.display_timer > 0
        THEN [f EXCEPT !.display_timer = f.display_timer - 1] ELSE f)
  ELSE [f EXCEPT !.timer = f.timer - 1, !.active = (f.timer - 1 > 0)]

\* FloatingScore.__init__; the marker drifts up by 0.3 a tick, so its height is
\* y - 0.3 * (FLOAT_TIMER - timer) and only the timer is stored
NewFloatingScore(x, y, points) == [x |-> x, y |-> y, points |-> points, timer |-> FLOAT_TIMER]

----------------------------------------------------------------------------
(* Game *)

READY_TICKS == 120

DEATH_FRAMES == 60

LEVEL_FLASH_TICKS == 120

SCATTER_TICKS == 420

CHASE_TICKS == 1200

FRIGHTENED_TICKS == 360

START_LIVES == 3

DOT_POINTS == 10

PELLET_POINTS == 50

GHOST_POINTS == 200

\* dist < TILE - 2
CAPTURE_RADIUS == TILE - 2

pac_start == <<14, 18>>

ghost_house == <<14, 11>>

fruit_cell == <<14, 14>>

\* Game._init_ghosts
init_ghosts ==
  LET hc == ghost_house[1]
      hr == ghost_house[2]
  IN [n \in GhostNames |->
        CASE n = "blinky" -> GhostReset("blinky", hc, hr - 3, hc, hr)
          [] n = "pinky" -> GhostReset("pinky", hc, hr, hc, hr)
          [] n = "inky" -> GhostReset("inky", hc - 2, hr, hc, hr)
          [] n = "clyde" -> GhostReset("clyde", hc + 2, hr, hc, hr)]

Cells == (0..(MAZE_ROWS - 1)) \X (0..(COLS - 1))

\* Game._count_dots
count_dots(m) == Cardinality({rc \in Cells : m[rc[1]][rc[2]] = 0 \/ m[rc[1]][rc[2]] = 3})

\* new_game, had it started the high score afresh
new_game_forget(hs) ==
  [state |-> "READY", ready_timer |-> READY_TICKS, level_flash_timer |-> 0,
   score |-> 0, high_score |-> 0, lives |-> START_LIVES, level |-> 0,
   dots_eaten |-> 0, total_dots |-> count_dots(build_maze),
   ghost_eat_combo |-> 0, mode |-> "scatter", mode_timer |-> 0,
   maze |-> build_maze, pacman |-> PacManReset(pac_start[1], pac_start[2]),
   ghosts |-> init_ghosts, fruit |-> NoFruit, fruit_spawned |-> FALSE,
   floating_scores |-> <<>>]

\* Game.new_game, with the high score it leaves as it is
new_game(hs) ==
  [state |-> "READY", ready_timer |-> READY_TICKS, level_flash_timer |-> 0,
   score |-> 0, high_score |-> hs, lives |-> START_LIVES, level |-> 0,
   dots_eaten |-> 0, total_dots |-> count_dots(build_maze),
   ghost_eat_combo |-> 0, mode |-> "scatter", mode_timer |-> 0,
   maze |-> build_maze, pacman |-> PacManReset(pac_start[1], pac_start[2]),
   ghosts |-> init_ghosts, fruit |-> NoFruit, fruit_spawned |-> FALSE,
   floating_scores |-> <<>>]

\* reset_positions, had it left the pursuers where they were
reset_positions_player(s) ==
  [s EXCEPT !.pacman = PacManReset(pac_start[1], pac_start[2]),
            !.state = "READY",
            !.ready_timer = READY_TICKS]

\* reset_positions, had it resumed play at once instead of warming up again
reset_positions_resume(s) ==
  [s EXCEPT !.pacman = PacManReset(pac_start[1], pac_start[2]),
            !.ghosts = init_ghosts,
            !.state = "PLAYING",
            !.ready_timer = 0]

\* Game._reset_positions
reset_positions(s) ==
  [s EXCEPT !.pacman = PacManReset(pac_start[1], pac_start[2]),
            !.ghosts = init_ghosts,
            !.state = "READY",
            !.ready_timer = READY_TICKS]

\* next_level, had it kept the count of consumed cells
next_level_keep(s) ==
  reset_positions([s EXCEPT !.level = s.level + 1,
                            !.maze = build_maze,
                            !.total_dots = count_dots(build_maze),
                            !.fruit = NoFruit,
                            !.fruit_spawned = FALSE,
                            !.mode_timer = 0,
                            !.mode = "scatter"])

\* Game._next_level
next_level(s) ==
  reset_positions([s EXCEPT !.level = s.level + 1,
                            !.maze = build_maze,
                            !.total_dots = count_dots(build_maze),
                            !.dots_eaten = 0,
                            !.fruit = NoFruit,
                            !.fruit_spawned = FALSE,
                            !.mode_timer = 0,
                            !.mode = "scatter"])

\* the warm-up, had the scheduler's clock run through it
UpdateReady_clock(s) ==
  [s EXCEPT !.ready_timer = s.ready_timer - 1,
            !.state = IF s.ready_timer - 1 <= 0 THEN "PLAYING" ELSE s.state,
            !.mode_timer = s.mode_timer + 1]

\* Game.update, READY
UpdateReady(s) ==
  [s EXCEPT !.ready_timer = s.ready_timer - 1,
            !.state = IF s.ready_timer - 1 <= 0 THEN "PLAYING" ELSE s.state]

\* the end of the death animation: the life is lost
LoseLife(s) ==
  IF s.lives - 1 <= 0
  THEN [s EXCEPT !.lives = s.lives - 1,
                 !.state = "GAME_OVER",
                 !.high_score = IF s.score > s.high_score THEN s.score ELSE s.high_score]
  ELSE reset_positions([s EXCEPT !.lives = s.lives - 1])

\* UpdateDying, had it ended the animation one frame late
UpdateDying_late(s) ==
  LET s1 == [s EXCEPT !.pacman.death_frame = s.pacman.death_frame + 1]
  IN IF s1.pacman.death_frame > DEATH_FRAMES THEN LoseLife(s1) ELSE s1

\* Game.update, DYING
UpdateDying(s) ==
  LET s1 == [s EXCEPT !.pacman.death_frame = s.pacman.death_frame + 1]
  IN IF s1.pacman.death_frame >= DEATH_FRAMES THEN LoseLife(s1) ELSE s1

\* Game.update, LEVEL_COMPLETE
UpdateLevelComplete(s) ==
  LET s1 == [s EXCEPT !.level_flash_timer = s.level_flash_timer - 1]
  IN IF s1.level_flash_timer <= 0 THEN next_level(s1) ELSE s1

\* mode switching (scatter <-> chase)
ModeSwitch(s) ==
  LET t == s.mode_timer + 1
  IN IF s.mode = "scatter" /\ t > SCATTER_TICKS
     THEN [s EXCEPT !.mode = "chase", !.mode_timer = 0]
     ELSE IF s.mode = "chase" /\ t > CHASE_TICKS
     THEN [s EXCEPT !.mode = "scatter", !.mode_timer = 0]
     ELSE [s EXCEPT !.mode_timer = t]

\* the grid cell of the player
PacCell(s) == pixel_to_grid(s.pacman.x, s.pacman.y)

InGrid(c) == 0 <= c[2] /\ c[2] < MAZE_ROWS /\ 0 <= c[1] /\ c[1] < COLS

\* Frighten, had it left the direction as it was
Frighten_ahead(g) ==
  IF g.state \notin {"EATEN", "IN_HOUSE"}
  THEN [g EXCEPT !.state = "FRIGHTENED",
                 !.frightened_timer = FRIGHTENED_TICKS]
  ELSE g

\* the power pellet's broadcast to the pursuers
Frighten(g) ==
  IF g.state \notin {"EATEN", "IN_HOUSE"}
  THEN [g EXCEPT !.state = "FRIGHTENED",
                 !.frightened_timer = FRIGHTENED_TICKS,
                 !.dir = Neg(g.dir)]
  ELSE g

\* the consumption, had a power pellet not been counted in dots_eaten
EatDots_uncounted(s) ==
  LET c == PacCell(s)
  IN IF ~InGrid(c) THEN s
     ELSE IF s.maze[c[2]][c[1]] = 0
     THEN [s EXCEPT !.maze[c[2]][c[1]] = 4,
                    !.score = s.score + DOT_POINTS,
                    !.dots_eaten = s.dots_eaten + 1]
     ELSE IF s.maze[c[2]][c[1]] = 3
     THEN [s EXCEPT !.maze[c[2]][c[1]] = 4,
                    !.score = s.score + PELLET_POINTS,
                    !.ghost_eat_combo = 0,
                    !.ghosts = [n \in GhostNames |-> Frighten(s.ghosts[n])]]
     ELSE s

\* EatDots, had a consumed dot left a wall behind
EatDots_wall(s) ==
  LET c == PacCell(s)
  IN IF ~InGrid(c) THEN s
     ELSE IF s.maze[c[2]][c[1]] = 0
     THEN [s EXCEPT !.maze[c[2]][c[1]] = 1,
                    !.score = s.score + DOT_POINTS,
                    !.dots_eaten = s.dots_eaten + 1]
     ELSE IF s.maze[c[2]][c[1]] = 3
     THEN [s EXCEPT !.maze[c[2]][c[1]] = 4,
                    !.score = s.score + PELLET_POINTS,
                    !.dots_eaten = s.dots_eaten + 1,
                    !.ghost_eat_combo = 0,
                    !.ghosts = [n \in GhostNames |-> Frighten(s.ghosts[n])]]
     ELSE s

\* EatDots, had it left the consumed cell in the grid
EatDots_keep(s) ==
  LET c == PacCell(s)
  IN IF ~InGrid(c) THEN s
     ELSE IF s.maze[c[2]][c[1]] = 0
     THEN [s EXCEPT !.score = s.score + DOT_POINTS,
                    !.dots_eaten = s.dots_eaten + 1]
     ELSE IF s.maze[c[2]][c[1]] = 3
     THEN [s EXCEPT !.score = s.score + PELLET_POINTS,
                    !.dots_eaten = s.dots_eaten + 1,
                    !.ghost_eat_combo = 0,
                    !.ghosts = [n \in GhostNames |-> Frighten(s.ghosts[n])]]
     ELSE s

\* "Check dot eating"
EatDots(s) ==
  LET c == PacCell(s)
  IN IF ~InGrid(c) THEN s
     ELSE IF s.maze[c[2]][c[1]] = 0
     THEN [s EXCEPT !.maze[c[2]][c[1]] = 4,
                    !.score = s.score + DOT_POINTS,
                    !.dots_eaten = s.dots_eaten + 1]
     ELSE IF s.maze[c[2]][c[1]] = 3
     THEN [s EXCEPT !.maze[c[2]][c[1]] = 4,
                    !.score = s.score + PELLET_POINTS,
                    !.dots_eaten = s.dots_eaten + 1,
                    !.ghost_eat_combo = 0,
                    !.ghosts = [n \in GhostNames |-> Frighten(s.ghosts[n])]]
     ELSE s

\* the fruit spawn, had it not looked at fruit_spawned
FruitSpawn_again(s) ==
  IF s.dots_eaten >= s.total_dots \div 3
  THEN [s EXCEPT !.fruit = NewFruit(fruit_cell[1], fruit_cell[2], s.level),
                 !.fruit_spawned = TRUE]
  ELSE s

\* "Check fruit spawn"
FruitSpawn(s) ==
  IF ~s.fruit_spawned /\ s.dots_eaten >= s.total_dots \div 3
  THEN [s EXCEPT !.fruit = NewFruit(fruit_cell[1], fruit_cell[2], s.level),
                 !.fruit_spawned = TRUE]
  ELSE s

\* the fruit update, had it tested the item as it was before its countdown
FruitUpdate_late(s) ==
  IF ~s.fruit.present THEN s
  ELSE LET f == FruitTick(s.fruit)
           dx == s.pacman.x - f.x
           dy == s.pacman.y - f.y
       IN IF s.fruit.active /\ dx * dx + dy * dy < TILE * TILE
          THEN [s EXCEPT !.score = s.score + f.points,
                         !.fruit = [f EXCEPT !.active = FALSE, !.collected = TRUE,
                                             !.display_timer = FRUIT_DISPLAY]]
          ELSE [s EXCEPT !.fruit = f]

\* "Update fruit"
FruitUpdate(s) ==
  IF ~s.fruit.present THEN s
  ELSE LET f == FruitTick(s.fruit)
           fc == pixel_to_grid(f.x, f.y)
           c == PacCell(s)
           dx == s.pacman.x - f.x
           dy == s.pacman.y - f.y
       IN IF f.active /\ Abs(c[1] - fc[1]) <= 1 /\ Abs(c[2] - fc[2]) <= 1
             /\ dx * dx + dy * dy < TILE * TILE
          THEN [s EXCEPT !.score = s.score + f.points,
                         !.fruit = [f EXCEPT !.active = FALSE, !.collected = TRUE,
                                             !.display_timer = FRUIT_DISPLAY]]
          ELSE [s EXCEPT !.fruit = f]

Pow2(n) == 2 ^ n

\* the collision test, had a pursuer in EATEN or IN_HOUSE killed as well
Collide_deadly(s, n) ==
  LET g == s.ghosts[n]
      dx == g.x - s.pacman.x
      dy == g.y - s.pacman.y
  IN IF dx * dx + dy * dy < CAPTURE_RADIUS * CAPTURE_RADIUS
     THEN IF g.state = "FRIGHTENED"
          THEN [s EXCEPT !.ghosts[n].state = "EATEN",
                         !.ghost_eat_combo = s.ghost_eat_combo + 1,
                         !.score = s.score + GHOST_POINTS * Pow2(s.ghost_eat_combo),
                         !.floating_scores =
                            Append(s.floating_scores,
                                   NewFloatingScore(g.x, g.y,
                                                    GHOST_POINTS * Pow2(s.ghost_eat_combo)))]
          ELSE [s EXCEPT !.pacman.alive = FALSE,
                         !.state = "DYING",
                         !.pacman.death_frame = 0]
     ELSE s

\* Collide, had the award grown by 200 a capture instead of doubling
Collide_linear(s, n) ==
  LET g == s.ghosts[n]
      dx == g.x - s.pacman.x
      dy == g.y - s.pacman.y
  IN IF dx * dx + dy * dy < CAPTURE_RADIUS * CAPTURE_RADIUS
     THEN IF g.state = "FRIGHTENED"
          THEN [s EXCEPT !.ghosts[n].state = "EATEN",
                         !.ghost_eat_combo = s.ghost_eat_combo + 1,
                         !.score = s.score + GHOST_POINTS * (s.ghost_eat_combo + 1),
                         !.floating_scores =
                            Append(s.floating_scores,
                                   NewFloatingScore(g.x, g.y,
                                                    GHOST_POINTS * (s.ghost_eat_combo + 1)))]
          ELSE IF g.state \notin {"EATEN", "IN_HOUSE"}
          THEN [s EXCEPT !.pacman.alive = FALSE,
                         !.state = "DYING",
                         !.pacman.death_frame = 0]
          ELSE s
     ELSE s

\* "Check collision with PacMan", for the pursuer named n
Collide(s, n) ==
  LET g == s.ghosts[n]
      dx == g.x - s.pacman.x
      dy == g.y - s.pacman.y
  IN IF dx * dx + dy * dy < CAPTURE_RADIUS * CAPTURE_RADIUS
     THEN IF g.state = "FRIGHTENED"
          THEN [s EXCEPT !.ghosts[n].state = "EATEN",
                         !.ghost_eat_combo = s.ghost_eat_combo + 1,
                         !.score = s.score + GHOST_POINTS * Pow2(s.ghost_eat_combo),
                         !.floating_scores =
                            Append(s.floating_scores,
                                   NewFloatingScore(g.x, g.y,
                                                    GHOST_POINTS * Pow2(s.ghost_eat_combo)))]
          ELSE IF g.state \notin {"EATEN", "IN_HOUSE"}
          THEN [s EXCEPT !.pacman.alive = FALSE,
                         !.state = "DYING",
                         !.pacman.death_frame = 0]
          ELSE s
     ELSE s

\* "Update ghosts": each pursuer in turn is updated and then tested
RECURSIVE GhostLoop(_, _, _, _, _)
GhostLoop(s, i, blinky_pos, picks, bob) ==
  IF i > Len(NAMES) THEN s
  ELSE LET n == NAMES[i]
           g == GhostUpdate(s.ghosts[n], s.maze, s.pacman, blinky_pos, s.mode,
                            s.dots_eaten, picks[n], bob)
       IN GhostLoop(Collide([s EXCEPT !.ghosts[n] = g], n), i + 1, blinky_pos, picks, bob)

UpdateGhosts(s, picks, bob) ==
  GhostLoop(s, 1, pixel_to_grid(s.ghosts["blinky"].x, s.ghosts["blinky"].y), picks, bob)

\* "Update floating scores"
UpdateFloating(s) ==
  LET aged == [i \in 1..Len(s.floating_scores) |->
                 [s.floating_scores[i] EXCEPT !.timer = s.floating_scores[i].timer - 1]]
  IN [s EXCEPT !.floating_scores = SelectSeq(aged, LAMBDA f : f.timer > 0)]

\* "Check level complete"
LevelCheck(s) ==
  IF s.dots_eaten >= s.total_dots
  THEN [s EXCEPT !.state = "LEVEL_COMPLETE", !.level_flash_timer = LEVEL_FLASH_TICKS]
  ELSE s

\* the player's part of a PLAYING tick, up to the consumption of the cell
AfterPacMan(s) == [ModeSwitch(s) EXCEPT !.pacman = PacManUpdate(s.pacman, s.maze)]

\* Game.update, PLAYING
UpdatePlaying(s, picks, bob) ==
  LevelCheck(UpdateFloating(UpdateGhosts(FruitUpdate(FruitSpawn(EatDots(AfterPacMan(s)))),
                                         picks, bob)))

\* the draws of random.choice a PLAYING tick may make for pursuer n
Picks(s, n) ==
  LET a == EatDots(AfterPacMan(s))
  IN Draws(a.ghosts[n], a.maze, a.mode)

\* Game.update
Update(s, picks, bob) ==
  CASE s.state = "READY" -> UpdateReady(s)
    [] s.state = "DYING" -> UpdateDying(s)
    [] s.state = "LEVEL_COMPLETE" -> UpdateLevelComplete(s)
    [] s.state = "PLAYING" -> UpdatePlaying(s, picks, bob)
    [] OTHER -> s
\* the offsets the bobbing may take in a PLAYING tick: drawn only when a
\* pursuer stays in the house (0 stands for "not read")
BobDraws(s) ==
  IF \E n \in GhostNames : s.ghosts[n].state = "IN_HOUSE"
                           /\ EatDots(AfterPacMan(s)).dots_eaten < release_dots[n]
  THEN Bobs ELSE {0}
----------------------------------------------------------------------------
(* The state machine: the Game object, its update tick and its key events *)

\* the Game object as a record
Self ==
  [state |-> state, ready_timer |-> ready_timer, level_flash_timer |-> level_flash_timer,
   score |-> score, high_score |-> high_score, lives |-> lives, level |-> level,
   dots_eaten |-> dots_eaten, total_dots |-> total_dots,
   ghost_eat_combo |-> ghost_eat_combo, mode |-> mode, mode_timer |-> mode_timer,
   maze |-> maze, pacman |-> pacman, ghosts |-> ghosts, fruit |-> fruit,
   fruit_spawned |-> fruit_spawned, floating_scores |-> floating_scores]

Holds(s) ==
  /\ state = s.state
  /\ ready_timer = s.ready_timer
  /\ level_flash_timer = s.level_flash_timer
  /\ score = s.score
  /\ high_score = s.high_score
  /\ lives = s.lives
  /\ level = s.level
  /\ dots_eaten = s.dots_eaten
  /\ total_dots = s.total_dots
  /\ ghost_eat_combo = s.ghost_eat_combo
  /\ mode = s.mode
  /\ mode_timer = s.mode_timer
  /\ maze = s.maze
  /\ pacman = s.pacman
  /\ ghosts = s.ghosts
  /\ fruit = s.fruit
  /\ fruit_spawned = s.fruit_spawned
  /\ floating_scores = s.floating_scores

Becomes(s) ==
  /\ state' = s.state
  /\ ready_timer' = s.ready_timer
  /\ level_flash_timer' = s.level_flash_timer
  /\ score' = s.score
  /\ high_score' = s.high_score
  /\ lives' = s.lives
  /\ level' = s.level
  /\ dots_eaten' = s.dots_eaten
  /\ total_dots' = s.total_dots
  /\ ghost_eat_combo' = s.ghost_eat_combo
  /\ mode' = s.mode
  /\ mode_timer' = s.mode_timer
  /\ maze' = s.maze
  /\ pacman' = s.pacman
  /\ ghosts' = s.ghosts
  /\ fruit' = s.fruit
  /\ fruit_spawned' = s.fruit_spawned
  /\ floating_scores' = s.floating_scores

\* the bookkeeping of a held intent: the player was centred on cell from with
\* the pending direction dir leading to a passable cell, and has since made n
\* PLAYING ticks with that pending direction unchanged
NoWalk == [from |-> <<0, 0>>, dir |-> STOP, n |-> 0]

Centred(p) ==
  LET c == pixel_to_grid(p.x, p.y)
  IN <<p.x, p.y>> = grid_to_pixel(c[1], c[2])

WalkAfter(w, s) ==
  LET p == s.pacman
      c == pixel_to_grid(p.x, p.y)
  IN IF s.state # "PLAYING" \/ ~p.alive \/ p.next_dir = STOP THEN NoWalk
     ELSE IF w.n > 0 /\ p.next_dir = w.dir THEN [w EXCEPT !.n = w.n + 1]
     ELSE IF Centred(p) /\ can_move(s.maze, c[1] + p.next_dir[1], c[2] + p.next_dir[2])
     THEN [from |-> c, dir |-> p.next_dir, n |-> 1]
     ELSE NoWalk

\* Game.update in PLAYING, with the draws of this tick
TickPlaying ==
  /\ state = "PLAYING"
  /\ budget > 0
  /\ \E pb \in Picks(Self, "blinky") : \E pp \in Picks(Self, "pinky") :
       \E pi \in Picks(Self, "inky") : \E pc \in Picks(Self, "clyde") :
         \E bob \in BobDraws(Self) :
           Becomes(UpdatePlaying(Self, [n \in GhostNames |->
                                          CASE n = "blinky" -> pb
                                            [] n = "pinky" -> pp
                                            [] n = "inky" -> pi
                                            [] n = "clyde" -> pc], bob))
  /\ budget' = budget - 1

\* Game.update in the other states
TickHold ==
  /\ state # "PLAYING"
  /\ Becomes(Update(Self, [n \in GhostNames |-> UP], 0))
  /\ UNCHANGED budget

\* one call of Game.update; the PLAYING ticks of a run are bounded by budget
Tick ==
  /\ TickPlaying \/ TickHold
  /\ walk' = WalkAfter(walk, Self)

\* handle_events: a direction key sets the player's pending direction
KeyDown ==
  /\ \E d \in {UP, DOWN, LEFT, RIGHT} : pacman' = [pacman EXCEPT !.next_dir = d]
  /\ UNCHANGED <<state, ready_timer, level_flash_timer, score, high_score, lives,
                 level, dots_eaten, total_dots, ghost_eat_combo, mode, mode_timer,
                 maze, ghosts, fruit, fruit_spawned, floating_scores, budget, walk>>

\* handle_events: RETURN or SPACE when the game is over starts a new game
NewGameKey ==
  /\ state = "GAME_OVER" \/ state = "WIN"
  /\ Becomes(new_game(high_score))
  /\ UNCHANGED budget
  /\ walk' = NoWalk

Next == Tick \/ KeyDown \/ NewGameKey
----------------------------------------------------------------------------
(* Initial states: the Game as constructed, and Game objects set up in the  *)
(* middle of a session the way the scenarios of the specification set them  *)
(* up (fields assigned on a constructed Game). Every such state keeps what  *)
(* the code keeps: dots_eaten counts the consumed cells, the player stands  *)
(* on a consumed cell, no collision is pending, lives is 1..3.              *)

\* PLAYING ticks allowed to a run that follows a held intent
MaxHold == 13

\* PLAYING ticks allowed to a run around a power pellet
MaxPellet == 9

\* PLAYING ticks allowed to the other runs
MaxShort == 2

\* how far outside the grid the cells asked of can_move lie
MaxOut == 2

\* the grid with the cells of eaten (<<col, row>>) consumed
Ate(m, eaten) ==
  [r \in 0..(MAZE_ROWS - 1) |->
     [c \in 0..(COLS - 1) |->
        IF <<c, r>> \in eaten /\ m[r][c] \in {0, 3} THEN 4 ELSE m[r][c]]]

\* the grid with every consumable consumed but those of left
AllButLeft(left) ==
  [r \in 0..(MAZE_ROWS - 1) |->
     [c \in 0..(COLS - 1) |->
        IF <<c, r>> \notin left /\ build_maze[r][c] \in {0, 3} THEN 4 ELSE build_maze[r][c]]]

\* a pursuer out of its start position
Placed(n, x, y, d, st, ft) ==
  [init_ghosts[n] EXCEPT !.x = x, !.y = y, !.dir = d, !.state = st,
                         !.frightened_timer = ft,
                         !.speed = IF st = "EATEN" THEN EATEN_SPEED
                                   ELSE IF st = "FRIGHTENED" THEN FRIGHTENED_SPEED
                                   ELSE GHOST_SPEED]

PlacedAt(n, col, row, d, st, ft) ==
  Placed(n, grid_to_pixel(col, row)[1], grid_to_pixel(col, row)[2], d, st, ft)

\* the session after the first PLAYING tick of a game: the start cell's dot is
\* consumed
Mid ==
  [new_game(0) EXCEPT !.state = "PLAYING", !.ready_timer = 0,
                      !.maze = Ate(build_maze, {pac_start}),
                      !.dots_eaten = 1, !.score = DOT_POINTS]

\* the pursuers spread over the corners, none in the house
Spread ==
  [n \in GhostNames |->
     CASE n = "blinky" -> PlacedAt("blinky", 26, 1, UP, "SCATTER", 0)
       [] n = "pinky" -> PlacedAt("pinky", 1, 1, UP, "SCATTER", 0)
       [] n = "inky" -> PlacedAt("inky", 26, 22, DOWN, "SCATTER", 0)
       [] n = "clyde" -> PlacedAt("clyde", 1, 22, DOWN, "SCATTER", 0)]

\* the game as it stands when a scatter or chase phase is about to end: the
\* player never left the start cell, blinky stands below the house exit
ScModeEdge(md, tm) ==
  [Mid EXCEPT !.mode = md, !.mode_timer = tm,
              !.ghosts["blinky"] = Placed("blinky", 348, 302, DOWN, "SCATTER", 0)]

\* the player one step above the power pellet of cell (1, 3), heading down
PelletPac ==
  [PacManReset(pac_start[1], pac_start[2]) EXCEPT !.x = 36, !.y = 166, !.dir = DOWN,
                                                  !.next_dir = DOWN]

PelletGhosts(k) ==
  [n \in GhostNames |->
     CASE k = 1 ->
          (CASE n = "blinky" -> PlacedAt("blinky", 1, 4, UP, "CHASE", 0)
             [] n = "pinky" -> Placed("pinky", 136, 180, RIGHT, "SCATTER", 0)
             [] n = "inky" -> PlacedAt("inky", 14, 8, DOWN, "EATEN", 0)
             [] n = "clyde" -> init_ghosts["clyde"])
       [] k = 2 ->
          (CASE n = "blinky" -> PlacedAt("blinky", 1, 4, UP, "CHASE", 0)
             [] n = "pinky" -> PlacedAt("pinky", 1, 1, DOWN, "CHASE", 0)
             [] n = "inky" -> PlacedAt("inky", 26, 22, DOWN, "FRIGHTENED", 5)
             [] n = "clyde" -> PlacedAt("clyde", 1, 22, DOWN, "SCATTER", 0))
       [] OTHER ->
          Placed(n, 36, 190, DOWN, IF n \in {"blinky", "inky"} THEN "CHASE" ELSE "SCATTER", 0)]

ScPellet(k) ==
  [Mid EXCEPT !.maze = Ate(build_maze, {pac_start, <<1, 2>>}),
              !.dots_eaten = 2, !.score = 2 * DOT_POINTS,
              !.mode = "chase", !.mode_timer = 100,
              !.ghost_eat_combo = IF k = 2 THEN 1 ELSE 0,
              !.pacman = PelletPac,
              !.ghosts = PelletGhosts(k)]

\* blinky chasing next to the player, who stands on the start cell
ScKill(lv) ==
  [Mid EXCEPT !.lives = lv, !.mode = "chase", !.mode_timer = 100,
              !.ghosts = [Spread EXCEPT !["blinky"] =
                             Placed("blinky", 326, 540, RIGHT, "CHASE", 0)]]

\* a bonus item whose lifetime ran out
ExpiredFruit == [NewFruit(fruit_cell[1], fruit_cell[2], 0) EXCEPT !.timer = 0, !.active = FALSE]

\* one dot left, in cell (15, 18), the player about to enter that cell; with
\* near, blinky chases two cells away
ScLast(near) ==
  [Mid EXCEPT !.maze = AllButLeft({<<15, 18>>}),
              !.dots_eaten = count_dots(build_maze) - 1,
              !.score = 3430,
              !.fruit = ExpiredFruit, !.fruit_spawned = TRUE,
              !.pacman = [PacManReset(pac_start[1], pac_start[2]) EXCEPT
                             !.x = 358, !.dir = RIGHT, !.next_dir = RIGHT],
              !.ghosts = IF near
                         THEN [Spread EXCEPT !["blinky"] =
                                  Placed("blinky", 382, 540, LEFT, "CHASE", 0)]
                         ELSE Spread]

\* frightened pursuers whose countdown is about to end, one next to the player,
\* and a captured pursuer about to reach the house
ScFright(md) ==
  [Mid EXCEPT !.mode = md, !.mode_timer = 100, !.ghost_eat_combo = 1,
              !.score = 260,
              !.ghosts =
                 [n \in GhostNames |->
                    CASE n = "blinky" -> PlacedAt("blinky", 26, 1, UP, "FRIGHTENED", 2)
                      [] n = "pinky" -> PlacedAt("pinky", 1, 1, UP, "FRIGHTENED", 1)
                      [] n = "inky" -> PlacedAt("inky", 13, 18, LEFT, "FRIGHTENED", 200)
                      [] n = "clyde" -> Placed("clyde", 348, 368, DOWN, "EATEN", 0)]]

\* the player in a mouth of the tunnel of row 10, heading out of the grid, and
\* inky, frightened, in the same mouth of the tunnel of row 12; clyde has run
\* into the dead end of cell (11, 5)
ScTunnel(right) ==
  [Mid EXCEPT !.pacman = [PacManReset(pac_start[1], pac_start[2]) EXCEPT
                             !.x = IF right THEN COLS * TILE + TILE \div 2 - 1
                                   ELSE 2 - TILE \div 2,
                             !.y = grid_to_pixel(0, 10)[2],
                             !.dir = IF right THEN RIGHT ELSE LEFT,
                             !.next_dir = IF right THEN RIGHT ELSE LEFT],
              !.ghosts = [Spread EXCEPT
                            !["inky"] =
                               Placed("inky",
                                      IF right THEN COLS * TILE + TILE \div 2 - 1
                                      ELSE 1 - TILE \div 2,
                                      grid_to_pixel(0, 12)[2],
                                      IF right THEN RIGHT ELSE LEFT, "FRIGHTENED", 200),
                            !["clyde"] = PlacedAt("clyde", 11, 5, RIGHT, "SCATTER", 0)]]

\* the cells consumed before the release of the k-th pursuer of the house: the
\* start cell and a stretch of rows 1 and 5
ReleaseEaten(k) ==
  {pac_start}
  \cup {<<c, 1>> : c \in 1..(CASE k = 1 -> 5 [] k = 2 -> 18 [] OTHER -> 26)}
  \cup {<<c, 5>> : c \in 1..(IF k = 3 THEN 9 ELSE 0)}

\* one dot short of the release threshold of the k-th pursuer of the house
\* (pinky, inky, clyde), the player about to enter the cell of the next dot; the
\* pursuers released before are out, the others in the house
ScRelease(k) ==
  [Mid EXCEPT !.maze = Ate(build_maze, ReleaseEaten(k)),
              !.dots_eaten = count_dots(build_maze) - count_dots(Ate(build_maze, ReleaseEaten(k))),
              !.score = DOT_POINTS * (count_dots(build_maze)
                                        - count_dots(Ate(build_maze, ReleaseEaten(k)))),
              !.pacman = [PacManReset(pac_start[1], pac_start[2]) EXCEPT
                             !.x = 358, !.dir = RIGHT, !.next_dir = RIGHT],
              !.ghosts = [n \in GhostNames |->
                            IF n = "blinky" \/ (n = "pinky" /\ k >= 2) \/ (n = "inky" /\ k >= 3)
                            THEN Spread[n] ELSE init_ghosts[n]]]

\* every pursuer in CHASE, the player on the start cell heading left: blinky
\* on a junction with two candidates as near to the player's cell as each
\* other, clyde 8 cells from the player, or 9 if far
ScChase(far) ==
  [Mid EXCEPT !.mode = "chase", !.mode_timer = 100,
              !.pacman = [PacManReset(pac_start[1], pac_start[2]) EXCEPT
                             !.dir = LEFT, !.next_dir = LEFT],
              !.ghosts =
                 [n \in GhostNames |->
                    CASE n = "blinky" -> PlacedAt("blinky", 10, 22, RIGHT, "CHASE", 0)
                      [] n = "pinky" -> PlacedAt("pinky", 6, 5, RIGHT, "CHASE", 0)
                      [] n = "inky" -> PlacedAt("inky", 24, 22, LEFT, "CHASE", 0)
                      [] n = "clyde" -> PlacedAt("clyde", IF far THEN 5 ELSE 6, 18, LEFT,
                                                 "CHASE", 0)]]

\* the cells consumed when the count is one short of a third of the total:
\* those of rows 1 to 6, of row 7 up to column 20, and the start cell
ThirdEaten ==
  {pac_start} \cup {<<c, r>> : c \in 0..(COLS - 1), r \in 1..6} \cup {<<c, 7>> : c \in 0..20}

\* level lv, one dot short of the third of the total that brings the bonus
\* item, the player about to enter the cell of the next dot
ScFruit(lv) ==
  [Mid EXCEPT !.level = lv,
              !.maze = Ate(build_maze, ThirdEaten),
              !.dots_eaten = count_dots(build_maze) \div 3 - 1,
              !.score = DOT_POINTS * (count_dots(build_maze) \div 3 - 1)
                          + 2 * (PELLET_POINTS - DOT_POINTS),
              !.pacman = [PacManReset(pac_start[1], pac_start[2]) EXCEPT
                             !.x = 358, !.dir = RIGHT, !.next_dir = RIGHT],
              !.ghosts = Spread]

\* the bonus item out with tm ticks to go, the player on the centre of the
\* cell left of it, one tile away, heading for it
ScBonus(tm) ==
  [Mid EXCEPT !.maze = Ate(build_maze, ThirdEaten \cup {<<21, 7>>, <<13, 14>>}),
              !.dots_eaten = count_dots(build_maze) \div 3 + 1,
              !.score = DOT_POINTS * (count_dots(build_maze) \div 3 + 1)
                          + 2 * (PELLET_POINTS - DOT_POINTS),
              !.fruit = [NewFruit(fruit_cell[1], fruit_cell[2], 0) EXCEPT !.timer = tm],
              !.fruit_spawned = TRUE,
              !.pacman = [PacManReset(pac_start[1], pac_start[2]) EXCEPT
                             !.x = grid_to_pixel(fruit_cell[1] - 1, fruit_cell[2])[1],
                             !.y = grid_to_pixel(fruit_cell[1] - 1, fruit_cell[2])[2],
                             !.dir = RIGHT, !.next_dir = RIGHT],
              !.ghosts = Spread]

\* lifetimes left to the bonus item of ScBonus
BonusTimers == {1, 2, FRUIT_TIMER \div 2}

Scenarios ==
  {[game |-> new_game(0), budget |-> MaxHold]}
  \cup {[game |-> ScModeEdge("scatter", SCATTER_TICKS), budget |-> MaxShort],
        [game |-> ScModeEdge("chase", CHASE_TICKS), budget |-> MaxShort]}
  \cup {[game |-> ScPellet(k), budget |-> MaxPellet] : k \in 1..3}
  \cup {[game |-> ScKill(lv), budget |-> MaxShort] : lv \in {1, START_LIVES}}
  \cup {[game |-> ScLast(near), budget |-> MaxShort] : near \in BOOLEAN}
  \cup {[game |-> ScFright(md), budget |-> MaxShort] : md \in {"scatter", "chase"}}
  \cup {[game |-> ScTunnel(right), budget |-> MaxShort] : right \in BOOLEAN}
  \cup {[game |-> ScRelease(k), budget |-> MaxShort] : k \in 1..3}
  \cup {[game |-> ScChase(far), budget |-> MaxShort] : far \in BOOLEAN}
  \cup {[game |-> ScFruit(lv), budget |-> MaxShort] : lv \in {0, Len(FRUIT_POINTS)}}
  \cup {[game |-> ScBonus(tm), budget |-> MaxShort] : tm \in BonusTimers}

Init ==
  \E sc \in Scenarios :
    /\ Holds(sc.game)
    /\ budget = sc.budget
    /\ walk = NoWalk

Spec == Init /\ [][Next]_vars
----------------------------------------------------------------------------
(* Properties *)

\* this step is a PLAYING tick (only such a tick uses up the budget)
PlayingTick == state = "PLAYING" /\ budget' = budget - 1

\* the cell the player stands on once it has moved in this tick
MovedCell == pixel_to_grid(pacman'.x, pacman'.y)

\* the pursuer state that goes with a phase of the scheduler
ModeState(md) == IF md = "chase" THEN "CHASE" ELSE "SCATTER"

\* the pursuers captured in this step
Captured == {n \in GhostNames : ghosts[n].state # "EATEN" /\ ghosts'[n].state = "EATEN"}

\* a power pellet, or a dot, is consumed in this PLAYING tick
PelletEaten == InGrid(MovedCell) /\ maze[MovedCell[2]][MovedCell[1]] = 3

DotEaten == InGrid(MovedCell) /\ maze[MovedCell[2]][MovedCell[1]] = 0

Near(g, p) ==
  (g.x - p.x) * (g.x - p.x) + (g.y - p.y) * (g.y - p.y) < CAPTURE_RADIUS * CAPTURE_RADIUS

C2_FollowsMode ==
  [][PlayingTick => \A n \in GhostNames :
        ghosts'[n].state \in {"SCATTER", "CHASE"} => ghosts'[n].state = ModeState(mode')]_vars

\* C3: twelve PLAYING ticks after the player was centred on a cell with a
\* pending direction leading to a passable cell, the intent held throughout, the
\* player stands on that neighbour cell and nothing is left to consume there
C3_ReachesNeighbour ==
  walk.n = TILE \div PAC_SPEED =>
    /\ PacCell(Self) = <<walk.from[1] + walk.dir[1], walk.from[2] + walk.dir[2]>>
    /\ InGrid(PacCell(Self)) => maze[PacCell(Self)[2]][PacCell(Self)[1]] \notin {0, 3}

\* C4: in a PLAYING tick, the cell the player has moved onto becomes 4 if it held
\* a dot (consumption adds 10 to the score, 1 to dots_eaten) or a power pellet
\* (adds 50 and 1, and sets the combo to 0); otherwise, and outside the grid,
\* grid and dots_eaten stay; no other cell changes in the tick
C4_Consumption ==
  [][PlayingTick =>
       LET a == AfterPacMan(Self)
           b == EatDots(a)
           c == MovedCell
       IN /\ PacCell(a) = c
          /\ IF DotEaten
             THEN /\ maze' = [maze EXCEPT ![c[2]][c[1]] = 4]
                  /\ dots_eaten' = dots_eaten + 1
                  /\ b.score = score + 10
                  /\ score' >= score + 10
             ELSE IF PelletEaten
             THEN /\ maze' = [maze EXCEPT ![c[2]][c[1]] = 4]
                  /\ dots_eaten' = dots_eaten + 1
                  /\ b.score = score + 50
                  /\ score' >= score + 50
                  /\ b.ghost_eat_combo = 0
                  /\ ghost_eat_combo' = Cardinality(Captured)
             ELSE /\ maze' = maze
                  /\ dots_eaten' = dots_eaten
                  /\ b.score = score]_vars

\* the pellet of cell (1, 3) has just been consumed
C4_Witness == state = "PLAYING" /\ maze[3][1] = 4 /\ dots_eaten = 3 /\ pacman.y = 168

\* C5: the pickup of a power pellet makes every pursuer that is not EATEN or
\* IN_HOUSE FRIGHTENED, with its direction reversed and its countdown at 360,
\* and leaves the others as they are; at the end of that tick the frightened
\* ones have counted down once, still head the reverse way unless they decided
\* anew on a cell centre, and are FRIGHTENED unless captured
C5_Frightens ==
  [][(PlayingTick /\ PelletEaten) =>
       LET a == AfterPacMan(Self)
           b == EatDots(a)
       IN \A n \in GhostNames :
            IF ghosts[n].state \notin {"EATEN", "IN_HOUSE"}
            THEN /\ b.ghosts[n] = [ghosts[n] EXCEPT !.state = "FRIGHTENED",
                                                    !.frightened_timer = 360,
                                                    !.dir = Neg(ghosts[n].dir)]
                 /\ ghosts'[n].frightened_timer = 360 - 1
                 /\ ghosts'[n].state = IF n \in Captured THEN "EATEN" ELSE "FRIGHTENED"
                 /\ ~GhostAtCenter([ghosts[n] EXCEPT !.speed = FRIGHTENED_SPEED])
                      => ghosts'[n].dir = Neg(ghosts[n].dir)
            ELSE /\ b.ghosts[n] = ghosts[n]
                 /\ ghosts'[n].state # "FRIGHTENED"
                 /\ ghosts'[n].frightened_timer = ghosts[n].frightened_timer]_vars

\* after the pickup of the pellet of cell (1, 3): a pursuer caught off centre
\* heads the reverse way, frightened, another stays in the house
C5_Witness ==
  /\ maze[3][1] = 4 /\ pacman.y = 168
  /\ ghosts["pinky"].state = "FRIGHTENED" /\ ghosts["pinky"].frightened_timer = 359
  /\ ghosts["pinky"].dir = LEFT
  /\ ghosts["inky"].state = "EATEN" /\ ghosts["clyde"].state = "IN_HOUSE"

RECURSIVE AwardSum(_, _)
AwardSum(c0, k) ==
  IF k = 0 THEN 0 ELSE AwardSum(c0, k - 1) + GHOST_POINTS * 2 ^ (c0 + k - 1)

\* C7: a pickup sets the combo to 0; the k-th capture since then awards
\* 200 * 2^(k-1), to the score and as a floating score; the combo never
\* exceeds 4, so that every award is one of 200, 400, 800, 1600
C7_ComboAwards ==
  [][PlayingTick =>
       LET c0 == IF PelletEaten THEN 0 ELSE ghost_eat_combo
           k == Cardinality(Captured)
           eaten == IF DotEaten THEN DOT_POINTS ELSE IF PelletEaten THEN PELLET_POINTS ELSE 0
           bonus == IF fruit'.collected /\ ~fruit.collected THEN fruit'.points ELSE 0
           kept == Len(floating_scores') - k
       IN /\ ghost_eat_combo <= 4
          /\ ghost_eat_combo' = c0 + k
          /\ ghost_eat_combo' <= 4
          /\ score' = score + eaten + bonus + AwardSum(c0, k)
          /\ kept >= 0
          /\ \A j \in 1..k :
               /\ floating_scores'[kept + j].points = GHOST_POINTS * 2 ^ (c0 + j - 1)
               /\ floating_scores'[kept + j].points \in {200, 400, 800, 1600}]_vars

\* four captures after the pickup of cell (1, 3): 70 + 200 + 400 + 800 + 1600
C7_Witness == ghost_eat_combo = 4 /\ score = 3070 /\ Len(floating_scores) = 4

C9_Lives ==
  [][/\ lives' \in 0..START_LIVES
     /\ (lives' = 0) <=> (state' = "GAME_OVER")
     /\ \/ IF state = "DYING"
           THEN /\ pacman.death_frame \in 0..(DEATH_FRAMES - 1)
                /\ IF pacman.death_frame + 1 < DEATH_FRAMES
                   THEN /\ pacman'.death_frame = pacman.death_frame + 1
                        /\ state' = "DYING" /\ lives' = lives
                   ELSE /\ lives' = lives - 1
                        /\ state' = IF lives' = 0 THEN "GAME_OVER" ELSE "READY"
           ELSE /\ lives' = lives
                /\ state' = "DYING" => pacman'.death_frame = 0
        \/ ~Tick]_vars

\* the last life was lost at the end of the animation
C9_Witness == state = "GAME_OVER" /\ lives = 0 /\ pacman.death_frame = DEATH_FRAMES

\* C10: a PLAYING tick that ends with dots_eaten at total_dots ends in
\* LEVEL_COMPLETE with 120 ticks to go; LEVEL_COMPLETE counts them down and
\* changes nothing else, and the 120th rebuilds the grid from CLASSIC_MAZE,
\* adds 1 to level, sets dots_eaten to 0 and total_dots to the count of the new
\* grid, and leaves score and lives as they are
C10_LevelComplete ==
  [][\/ /\ (state = "PLAYING" /\ dots_eaten' >= total_dots')
             => (state' = "LEVEL_COMPLETE" /\ level_flash_timer' = LEVEL_FLASH_TICKS)
        /\ state = "LEVEL_COMPLETE" =>
             /\ level_flash_timer \in 1..LEVEL_FLASH_TICKS
             /\ level_flash_timer' = level_flash_timer - 1
             /\ score' = score /\ lives' = lives
             /\ IF level_flash_timer' > 0
                THEN /\ state' = "LEVEL_COMPLETE"
                     /\ UNCHANGED <<level, maze, dots_eaten, total_dots>>
                ELSE /\ level' = level + 1
                     /\ maze' = build_maze
                     /\ dots_eaten' = 0
                     /\ total_dots' = count_dots(build_maze)
                     /\ state' # "LEVEL_COMPLETE"
     \/ ~Tick]_vars

\* the second level starts: grid rebuilt, score kept
C10_Witness ==
  /\ state = "READY" /\ level = 1 /\ dots_eaten = 0 /\ maze = build_maze
  /\ total_dots = count_dots(build_maze) /\ score = 3440 /\ lives = START_LIVES

\* C11: a pursuer in the house stays IN_HOUSE, on its column, through every
\* step but the PLAYING tick whose count of consumed cells has reached its
\* release threshold; that tick makes it SCATTER and puts it on the centre of
\* the exit cell, three rows above the house anchor, where it stays for the tick
C11_Release ==
  [][\A n \in GhostNames :
       ghosts[n].state = "IN_HOUSE" =>
         IF PlayingTick /\ dots_eaten' >= release_dots[n]
         THEN /\ ghosts'[n].state = "SCATTER"
              /\ <<ghosts'[n].x, ghosts'[n].y>>
                   = grid_to_pixel(ghosts[n].house_col, ghosts[n].house_row - 3)
              /\ ghosts'[n].dir = ghosts[n].dir
         ELSE /\ ghosts'[n].state = "IN_HOUSE"
              /\ ghosts'[n].x = ghosts[n].x]_vars

\* the seventh dot has just released pinky; inky and clyde wait in the house
C11_Witness ==
  /\ dots_eaten = 7
  /\ ghosts["pinky"].state = "SCATTER"
  /\ <<ghosts["pinky"].x, ghosts["pinky"].y>> = grid_to_pixel(14, 8)
  /\ ghosts["inky"].state = "IN_HOUSE" /\ ghosts["clyde"].state = "IN_HOUSE"

\* pursuer n as its update of this PLAYING tick finds it (a pickup of the tick
\* has frightened it already), and as it stands when it decides on a direction
Pre(n) == IF PelletEaten THEN Frighten(ghosts[n]) ELSE ghosts[n]

Deciding(n) == GhostTimers(Pre(n), mode').g

\* pursuer n decides on a direction in this PLAYING tick: it is out of the
\* house, has not just come home, and stands on a cell centre
Decides(n) ==
  /\ PlayingTick
  /\ Pre(n).state # "IN_HOUSE"
  /\ ~GhostTimers(Pre(n), mode').done
  /\ GhostAtCenter(Deciding(n))

\* C12: a pursuer that decides on a direction while not FRIGHTENED takes the
\* reverse of its direction only if none of the other three neighbours can be
\* entered, that is only when the filtered candidates are none and the
\* fallback enumeration supplies the reverse
C12_NoReverse ==
  [][\A n \in GhostNames :
       Decides(n) =>
         \A g \in {Deciding(n)} : \A c \in {pixel_to_grid(g.x, g.y)} :
           (g.state # "FRIGHTENED" /\ ghosts'[n].dir = Neg(g.dir)) =>
             /\ \A i \in 1..Len(DIRS4) :
                  DIRS4[i] # Neg(g.dir)
                    => ~can_move(maze', c[1] + DIRS4[i][1], c[2] + DIRS4[i][2])
             /\ FilteredDirs(g, maze', c[1], c[2]) = <<>>
             /\ FallbackDirs(maze', c[1], c[2]) = <<Neg(g.dir)>>]_vars

\* clyde, in SCATTER, has turned back in the dead end of cell (11, 5)
C12_Witness ==
  /\ ghosts["clyde"].state = "SCATTER" /\ ghosts["clyde"].dir = LEFT
  /\ <<ghosts["clyde"].x, ghosts["clyde"].y>>
       = <<grid_to_pixel(11, 5)[1] - GHOST_SPEED, grid_to_pixel(11, 5)[2]>>

\* the grid is rebuilt in this step: a level starts, or a game
Rebuild ==
  /\ state \in {"LEVEL_COMPLETE", "GAME_OVER", "WIN"} /\ state' = "READY"
  /\ maze' = build_maze

\* C13: but for a rebuild, a step changes a cell of the grid only from dot (0)
\* or power pellet (3) to empty (4): walls (1) and house walls (5) keep their
\* value, every cell keeps its passability, and an empty cell stays empty
C13_GridMonotone ==
  [][\/ maze' = maze
     \/ Rebuild
     \/ \A rc \in Cells :
          /\ maze'[rc[1]][rc[2]] # maze[rc[1]][rc[2]]
               => (maze[rc[1]][rc[2]] \in {0, 3} /\ maze'[rc[1]][rc[2]] = 4)
          /\ can_move(maze', rc[2], rc[1]) = can_move(maze, rc[2], rc[1])]_vars

\* the seventh dot, of cell (15, 18), is consumed; the cells around are as built
C13_Witness ==
  /\ dots_eaten = 7 /\ build_maze[18][15] = 0 /\ maze[18][15] = 4
  /\ maze[17] = build_maze[17] /\ maze[19] = build_maze[19]

\* where an entity stands once Ghost.update or PacMan.update has aligned it:
\* on the centre of its cell if it is within its speed of it
Snapped(e) ==
  IF GhostAtCenter(e)
  THEN grid_to_pixel(pixel_to_grid(e.x, e.y)[1], pixel_to_grid(e.x, e.y)[2])
  ELSE <<e.x, e.y>>

\* pursuer n moves in this PLAYING tick
Moves(n) ==
  PlayingTick /\ Pre(n).state # "IN_HOUSE" /\ ~GhostTimers(Pre(n), mode').done

\* x lies between the two wrap positions
InSpan(x) == -(TILE \div 2) <= x /\ x <= COLS * TILE + TILE \div 2

\* C14: the player and every moving pursuer end their update where the advance
\* took them, but that an x beyond COLS*TILE + TILE/2 becomes -TILE/2 and an x
\* below -TILE/2 becomes COLS*TILE + TILE/2; y is that of the advance; every x
\* stays within [-TILE/2, COLS*TILE + TILE/2]
C14_Wrap ==
  [][PlayingTick =>
       /\ pacman.alive =>
            LET ax == Snapped(pacman)[1] + pacman'.dir[1] * pacman.speed
            IN /\ pacman'.x = IF ax > COLS * TILE + TILE \div 2 THEN -(TILE \div 2)
                              ELSE IF ax < -(TILE \div 2) THEN COLS * TILE + TILE \div 2
                              ELSE ax
               /\ pacman'.y = Snapped(pacman)[2] + pacman'.dir[2] * pacman.speed
       /\ \A n \in GhostNames :
            Moves(n) =>
              \A g \in {Deciding(n)} : \A at \in {Snapped(g)} :
              \A ax \in {at[1] + ghosts'[n].dir[1] * g.speed} :
                /\ ghosts'[n].x = IF ax > COLS * TILE + TILE \div 2 THEN -(TILE \div 2)
                                  ELSE IF ax < -(TILE \div 2) THEN COLS * TILE + TILE \div 2
                                  ELSE ax
                /\ ghosts'[n].y = at[2] + ghosts'[n].dir[2] * g.speed
       /\ InSpan(pacman'.x)
       /\ \A n \in GhostNames : InSpan(ghosts'[n].x)]_vars

\* the player and inky have left by the left mouths and stand at the right ones
C14_Witness ==
  /\ pacman.x = COLS * TILE + TILE \div 2 /\ pacman.dir = LEFT
  /\ pacman.y = grid_to_pixel(0, 10)[2]
  /\ ghosts["inky"].x = COLS * TILE + TILE \div 2 /\ ghosts["inky"].dir = LEFT
  /\ ghosts["inky"].y = grid_to_pixel(0, 12)[2]

\* C15: can_move answers for every cell of the grid and up to MaxOut cells
\* outside it: FALSE above and below the grid whatever the column, TRUE left
\* and right of it on a row of the grid, and inside the grid TRUE exactly for
\* the cells that hold neither a wall (1) nor a house wall (5)
C15_CanMoveTotal ==
  \A col \in (-MaxOut)..(COLS - 1 + MaxOut) :
    \A row \in (-MaxOut)..(MAZE_ROWS - 1 + MaxOut) :
      can_move(maze, col, row)
        = (IF row \notin 0..(MAZE_ROWS - 1) THEN FALSE
           ELSE IF col \notin 0..(COLS - 1) THEN TRUE
           ELSE maze[row][col] \notin {1, 5})

\* the player stands right of the grid, where the cells to its left and right
\* can be entered and those above and below too; clyde has found the dead end
\* of cell (11, 5) closed on three sides
C15_Witness ==
  /\ PacCell(Self) = <<COLS, 10>> /\ pacman.dir = LEFT
  /\ can_move(maze, COLS + 1, 10) /\ can_move(maze, COLS, 9)
  /\ ghosts["clyde"].dir = LEFT
  /\ ~can_move(maze, 12, 5) /\ ~can_move(maze, 11, 4) /\ ~can_move(maze, 11, 6)

\* the cells the pursuers start on, blinky on the house exit
StartCell(n) ==
  CASE n = "blinky" -> <<14, 8>>
    [] n = "pinky" -> <<14, 11>>
    [] n = "inky" -> <<12, 11>>
    [] OTHER -> <<16, 11>>

\* C16: the step that starts a new game, from GAME_OVER, sets score 0, lives 3,
\* level 0, dots_eaten 0, combo 0, READY with 120 ticks, mode scatter with
\* timer 0, the grid as built, no fruit, no floating score, the player and the
\* pursuers on their start cells, and leaves the high score; no step lowers the
\* high score, and in GAME_OVER it is at least the score
C16_NewGame ==
  [][/\ high_score' >= high_score
     /\ state' = "GAME_OVER" => high_score' >= score'
     /\ (state \in {"GAME_OVER", "WIN"} /\ state' # state) =>
          /\ high_score' = high_score
          /\ score' = 0 /\ lives' = 3 /\ level' = 0 /\ dots_eaten' = 0
          /\ ghost_eat_combo' = 0
          /\ state' = "READY" /\ ready_timer' = 120
          /\ mode' = "scatter" /\ mode_timer' = 0
          /\ maze' = build_maze /\ total_dots' = count_dots(build_maze)
          /\ ~fruit'.present /\ ~fruit_spawned'
          /\ floating_scores' = <<>>
          /\ <<pacman'.x, pacman'.y>> = grid_to_pixel(14, 18)
          /\ pacman'.dir = STOP /\ pacman'.next_dir = STOP /\ pacman'.alive
          /\ \A n \in GhostNames :
               /\ <<ghosts'[n].x, ghosts'[n].y>> = grid_to_pixel(StartCell(n)[1], StartCell(n)[2])
               /\ ghosts'[n].state = IF n = "blinky" THEN "SCATTER" ELSE "IN_HOUSE"
               /\ ghosts'[n].dir = UP /\ ghosts'[n].speed = 2
               /\ ghosts'[n].frightened_timer = 0]_vars

\* a new game has started after a game that ended with 10 points
C16_Witness ==
  /\ state = "READY" /\ ready_timer = READY_TICKS /\ score = 0 /\ high_score = 10
  /\ lives = START_LIVES /\ level = 0 /\ maze = build_maze

----------------------------------------------------------------------------
(* A game left to itself: no key is pressed, the scheduler runs *)

\* PLAYING ticks allowed to the run of the scheduler: one scatter phase, one
\* chase phase and the start of the next scatter phase
MaxMode == 1625

InitIdle ==
  /\ Holds(new_game(0))
  /\ budget = MaxMode
  /\ walk = NoWalk

NextIdle == Tick

SpecIdle == InitIdle /\ [][NextIdle]_vars

\* the PLAYING ticks run since the level started
Elapsed == MaxMode - budget

\* C17: counting the PLAYING ticks of a level from 1, the ticks 1..420 run in
\* scatter, the 1200 ticks after them in chase, the 420 after those in scatter
\* again, and so on with period 1620
C17_PhaseLengths ==
  (state = "PLAYING" /\ Elapsed >= 1) =>
    mode = IF (Elapsed - 1) % (SCATTER_TICKS + CHASE_TICKS) < SCATTER_TICKS
           THEN "scatter" ELSE "chase"

DirIndex(d) == CHOOSE i \in 1..Len(DIRS4) : DIRS4[i] = d

\* the cell blinky stands on when the pursuers' updates of a tick begin
BlinkyCell == pixel_to_grid(ghosts["blinky"].x, ghosts["blinky"].y)

\* the squared distance to target t of the cell entered from cell c by
\* direction d
AimDist(c, t, d) == SqDist(<<c[1] + d[1], c[2] + d[2]>>, t)

\* the candidates of a pursuer that decides as g on cell c
Candidates(g, c) ==
  LET ds == possible_dirs(g, maze', c[1], c[2])
  IN {ds[i] : i \in 1..Len(ds)}

\* C19: a pursuer that decides in SCATTER, CHASE or EATEN takes a candidate
\* whose cell is nearest to its target in squared distance, and the first such
\* in the order Up, Left, Down, Right; it has a candidate whenever a neighbour
\* can be entered, and the cell it heads for can be entered
C19_NearestFirst ==
  [][\A n \in GhostNames :
       Decides(n) =>
         \A g \in {Deciding(n)} : \A c \in {pixel_to_grid(g.x, g.y)} :
         \A t \in {get_target(g, pacman', BlinkyCell)} :
         \A cs \in {Candidates(g, c)} : \A d \in {ghosts'[n].dir} :
           g.state \in {"SCATTER", "CHASE", "EATEN"} =>
             /\ (\E i \in 1..Len(DIRS4) :
                   can_move(maze', c[1] + DIRS4[i][1], c[2] + DIRS4[i][2]))
                  => cs # {}
             /\ cs # {} =>
                  /\ d \in cs
                  /\ can_move(maze', c[1] + d[1], c[2] + d[2])
                  /\ \A e \in cs :
                       \/ AimDist(c, t, e) > AimDist(c, t, d)
                       \/ /\ AimDist(c, t, e) = AimDist(c, t, d)
                          /\ DirIndex(e) >= DirIndex(d)]_vars

\* blinky, chasing from the junction of cell (10, 22), where Up and Right lead
\* as near to the player's cell, has gone up
C19_Witness ==
  /\ ghosts["blinky"].state = "CHASE" /\ ghosts["blinky"].dir = UP
  /\ <<ghosts["blinky"].x, ghosts["blinky"].y>>
       = <<grid_to_pixel(10, 22)[1], grid_to_pixel(10, 22)[2] - GHOST_SPEED>>
  /\ PacCell(Self) = <<14, 18>>

\* the corner a pursuer makes for in SCATTER
Corner(n) ==
  CASE n = "blinky" -> <<25, 0>>
    [] n = "pinky" -> <<2, 0>>
    [] n = "inky" -> <<27, 23>>
    [] OTHER -> <<0, 23>>

\* C20: the target of a pursuer, computed for the player and blinky as they
\* stand: its corner in SCATTER, the house anchor cell (14, 11) in EATEN; in
\* CHASE the player's cell for blinky, that cell plus 4 times the player's
\* direction for pinky, twice the cell 2 ahead of the player minus blinky's
\* cell for inky, and for clyde the player's cell if the squared distance in
\* cells from clyde to the player exceeds 64, its corner otherwise
C20_Targets ==
  \A n \in GhostNames :
    LET g == ghosts[n]
        pc == pixel_to_grid(pacman.x, pacman.y)
        own == pixel_to_grid(g.x, g.y)
        target == get_target(g, pacman, BlinkyCell)
    IN CASE g.state = "SCATTER" -> target = Corner(n)
         [] g.state = "EATEN" -> target = <<14, 11>>
         [] g.state = "CHASE" ->
            (CASE n = "blinky" -> target = pc
               [] n = "pinky" -> target = <<pc[1] + 4 * pacman.dir[1], pc[2] + 4 * pacman.dir[2]>>
               [] n = "inky" ->
                  target = <<2 * (pc[1] + 2 * pacman.dir[1]) - BlinkyCell[1],
                             2 * (pc[2] + 2 * pacman.dir[2]) - BlinkyCell[2]>>
               [] OTHER ->
                  target = IF (pc[1] - own[1]) * (pc[1] - own[1])
                              + (pc[2] - own[2]) * (pc[2] - own[2]) > 64
                           THEN pc ELSE Corner(n))
         [] OTHER -> TRUE

\* the four pursuers chase a player heading left from cell (14, 18) and have
\* moved by their targets; clyde, exactly 8 cells away, makes for its corner
C20_Witness ==
  /\ \A n \in GhostNames : ghosts[n].state = "CHASE"
  /\ ghosts["clyde"].x = grid_to_pixel(6, 18)[1] - GHOST_SPEED
  /\ ghosts["clyde"].dir = LEFT
  /\ pacman.x = grid_to_pixel(14, 18)[1] - PAC_SPEED
  /\ PacCell(Self) = <<14, 18>> /\ pacman.dir = LEFT
  /\ pixel_to_grid(ghosts["clyde"].x, ghosts["clyde"].y) = <<6, 18>>
  /\ get_target(ghosts["clyde"], pacman, BlinkyCell) = <<0, 23>>
  /\ get_target(ghosts["pinky"], pacman, BlinkyCell) = <<10, 18>>

\* C21: the bonus item is created in the PLAYING tick that takes dots_eaten to
\* a third of total_dots (rounded down) for the first time in the level, on
\* cell (14, 14), worth the tier min(level, 4) of 100, 300, 500, 700, 1000, its
\* lifetime of 600 counted down once by that tick; while fruit_spawned is set
\* no step makes an item anew (its place and worth stay, its lifetime never
\* grows, an inactive item stays inactive), and only the start of a level or
\* of a game clears fruit_spawned and removes the item
C21_SpawnOnce ==
  [][/\ (~fruit_spawned' /\ state' = "PLAYING") => dots_eaten' < total_dots' \div 3
     /\ IF PlayingTick /\ ~fruit_spawned /\ dots_eaten' >= total_dots \div 3
        THEN /\ fruit_spawned' /\ fruit'.present
             /\ <<fruit'.x, fruit'.y>> = grid_to_pixel(14, 14)
             /\ fruit'.points = <<100, 300, 500, 700, 1000>>[Min(level, 4) + 1]
             /\ fruit'.timer = 600 - 1
        ELSE IF Rebuild
        THEN ~fruit_spawned' /\ ~fruit'.present
        ELSE /\ fruit_spawned' = fruit_spawned
             /\ fruit'.present = fruit.present
             /\ <<fruit'.x, fruit'.y, fruit'.points>> = <<fruit.x, fruit.y, fruit.points>>
             /\ fruit'.timer <= fruit.timer
             /\ fruit'.active => fruit.active
             /\ ~PlayingTick => fruit' = fruit]_vars

\* the item of the sixth level has just come out, worth the highest tier
C21_Witness ==
  /\ level = Len(FRUIT_POINTS) /\ dots_eaten = total_dots \div 3
  /\ fruit_spawned /\ fruit.active /\ fruit.points = 1000 /\ fruit.timer = FRUIT_TIMER - 1

\* the bonus item as the fruit update of this PLAYING tick finds it
FruitBefore ==
  IF ~fruit_spawned /\ dots_eaten' >= total_dots \div 3
  THEN NewFruit(fruit_cell[1], fruit_cell[2], level)
  ELSE fruit

\* what this PLAYING tick adds to the score beyond consumption and captures
FruitGain ==
  score' - score
    - (IF DotEaten THEN DOT_POINTS ELSE IF PelletEaten THEN PELLET_POINTS ELSE 0)
    - AwardSum(IF PelletEaten THEN 0 ELSE ghost_eat_combo, Cardinality(Captured))

\* C22: in a PLAYING tick an active bonus item whose lifetime does not end in
\* the tick is collected if and only if the player, once moved, is less than
\* TILE away from it: its worth is added to the score and it becomes inactive
\* and collected; otherwise it stays active, one tick older. An item whose
\* lifetime ends in the tick becomes inactive, uncollected, and adds nothing;
\* an inactive item stays inactive and adds nothing
C22_Collect ==
  [][PlayingTick =>
       \A f \in {FruitBefore} : \A gain \in {FruitGain} :
         IF ~f.present THEN gain = 0
         ELSE IF ~f.active
         THEN gain = 0 /\ ~fruit'.active /\ fruit'.collected = f.collected
         ELSE IF f.timer - 1 <= 0
         THEN gain = 0 /\ ~fruit'.active /\ ~fruit'.collected
         ELSE IF (pacman'.x - f.x) * (pacman'.x - f.x)
                   + (pacman'.y - f.y) * (pacman'.y - f.y) < TILE * TILE
         THEN gain = f.points /\ ~fruit'.active /\ fruit'.collected
         ELSE /\ gain = 0 /\ fruit'.active /\ ~fruit'.collected
              /\ fruit'.timer = f.timer - 1]_vars

\* the item was collected a tick ago: 100 was added to the score once
C22_Witness ==
  /\ fruit.collected /\ ~fruit.active /\ fruit.display_timer = FRUIT_DISPLAY - 1
  /\ score = ScBonus(FRUIT_TIMER \div 2).score + fruit.points

\* the state in which the collision test of this PLAYING tick finds pursuer n:
\* the one its own update has left it in
Tested(n) ==
  IF Pre(n).state = "IN_HOUSE"
  THEN (IF dots_eaten' >= release_dots[n] THEN "SCATTER" ELSE "IN_HOUSE")
  ELSE GhostTimers(Pre(n), mode').g.state

\* C23: a pursuer becomes EATEN only in a PLAYING tick whose collision test
\* finds it FRIGHTENED and within the capture radius of the player, and that
\* test adds 1 to the combo and a floating score at the pursuer's place; the
\* combo and the score grow by the captures of such pursuers only, the player
\* dies only of a pursuer found in SCATTER or CHASE within the radius, and a
\* pursuer found in EATEN or IN_HOUSE within the radius keeps its state
C23_Capture ==
  [][\/ /\ Captured = {}
        /\ ~PlayingTick
     \/ /\ PlayingTick
        /\ \A ts \in {[n \in GhostNames |-> Tested(n)]} :
           \A near \in {{n \in GhostNames : Near(ghosts'[n], pacman')}} :
           \A c0 \in {IF PelletEaten THEN 0 ELSE ghost_eat_combo} :
             /\ Captured = {n \in near : ts[n] = "FRIGHTENED"}
             /\ ghost_eat_combo' = c0 + Cardinality(Captured)
             /\ \A n \in Captured :
                  \E i \in 1..Len(floating_scores') :
                    /\ <<floating_scores'[i].x, floating_scores'[i].y>>
                         = <<ghosts'[n].x, ghosts'[n].y>>
                    /\ floating_scores'[i].timer = FLOAT_TIMER - 1
             /\ FruitGain \in {0, FruitBefore.points}
             /\ (FruitGain # 0) => (fruit'.collected /\ ~FruitBefore.collected)
             /\ ~pacman'.alive => \E n \in near : ts[n] \in {"SCATTER", "CHASE"}
             /\ (state' = "DYING") => ~pacman'.alive
             /\ \A n \in near :
                  ts[n] \in {"EATEN", "IN_HOUSE"} => ghosts'[n].state = ts[n]]_vars

\* the four pursuers captured ticks ago stand, EATEN, within the capture
\* radius of the player: player alive, combo and score as the captures left them
C23_Witness ==
  /\ state = "PLAYING" /\ pacman.alive
  /\ \A n \in GhostNames : ghosts[n].state = "EATEN" /\ Near(ghosts[n], pacman)
  /\ ghost_eat_combo = 4 /\ score = 3070
  /\ Len(floating_scores) = 4 /\ floating_scores[4].timer <= FLOAT_TIMER - 3

\* C24: the tick that ends DYING with a life left puts the player on its start
\* cell, stopped and alive, and every pursuer on its start position heading
\* up, blinky in SCATTER and the three others IN_HOUSE with no frightened
\* countdown, and leaves grid, score, dots_eaten, total_dots and level as
\* they are
C24_DeathReset ==
  [][(state = "DYING" /\ state' # "DYING" /\ lives' > 0) =>
       /\ state' = "READY" /\ lives' = lives - 1
       /\ <<pacman'.x, pacman'.y>> = grid_to_pixel(14, 18)
       /\ pacman'.dir = STOP /\ pacman'.next_dir = STOP /\ pacman'.alive
       /\ \A n \in GhostNames :
            /\ <<ghosts'[n].x, ghosts'[n].y>>
                 = grid_to_pixel(StartCell(n)[1], StartCell(n)[2])
            /\ ghosts'[n].dir = UP
            /\ ghosts'[n].state = IF n = "blinky" THEN "SCATTER" ELSE "IN_HOUSE"
            /\ ghosts'[n].frightened_timer = 0
       /\ UNCHANGED <<maze, score, dots_eaten, total_dots, level>>]_vars

\* the player died once: everyone is back in place, blinky from the player's
\* side and the others from the corners, the start cell's dot still consumed
C24_Witness ==
  /\ state = "READY" /\ lives = START_LIVES - 1 /\ ready_timer < READY_TICKS
  /\ maze = Ate(build_maze, {pac_start}) /\ dots_eaten = 1 /\ score = DOT_POINTS
  /\ pacman = PacManReset(pac_start[1], pac_start[2])
  /\ ghosts = init_ghosts

\* this step leaves the simulation as it is: positions, directions and states
\* of the entities, grid, score, count, scheduler, frightened countdowns, bonus
\* item and floating scores
Frozen ==
  /\ <<pacman'.x, pacman'.y, pacman'.dir>> = <<pacman.x, pacman.y, pacman.dir>>
  /\ UNCHANGED <<ghosts, maze, score, dots_eaten, mode, mode_timer, fruit,
                 fruit_spawned, floating_scores>>

\* C25: a tick that begins in READY, DYING or LEVEL_COMPLETE leaves the
\* simulation as it is, but for the tick that ends DYING or LEVEL_COMPLETE in
\* the warm-up; READY counts ready_timer down from 120 and is left, for
\* PLAYING, by the tick that takes it to 0, and every step into READY sets it
\* to 120; a tick in GAME_OVER changes nothing at all
C25_HoldsFreeze ==
  [][/\ (state # "READY" /\ state' = "READY") => ready_timer' = 120
     /\ \/ CASE state = "READY" ->
                 /\ Frozen
                 /\ ready_timer \in 1..120
                 /\ ready_timer' = ready_timer - 1
                 /\ state' = IF ready_timer' = 0 THEN "PLAYING" ELSE "READY"
             [] state = "DYING" ->
                 /\ state' \in {"DYING", "GAME_OVER", "READY"}
                 /\ state' # "READY" => Frozen
             [] state = "LEVEL_COMPLETE" ->
                 /\ state' \in {"LEVEL_COMPLETE", "READY"}
                 /\ state' # "READY" => Frozen
             [] state = "GAME_OVER" ->
                 UNCHANGED <<state, ready_timer, level_flash_timer, score, high_score,
                             lives, level, dots_eaten, total_dots, ghost_eat_combo,
                             mode, mode_timer, maze, pacman, ghosts, fruit,
                             fruit_spawned, floating_scores>>
             [] OTHER -> TRUE
        \/ ~Tick]_vars

\* the warm-up of a new game is over, after 120 ticks that changed nothing
C25_Witness ==
  /\ state = "PLAYING" /\ ready_timer = 0 /\ budget = MaxHold
  /\ maze = build_maze /\ score = 0 /\ dots_eaten = 0
  /\ mode = "scatter" /\ mode_timer = 0
  /\ pacman = PacManReset(pac_start[1], pac_start[2]) /\ ghosts = init_ghosts
  /\ ~fruit.present /\ floating_scores = <<>>

\* C26: in every state dots_eaten and the number of dot and power pellet
\* cells of the grid add up to total_dots; so dots_eaten lies within
\* 0..total_dots, and equals total_dots exactly when no such cell is left
C26_Conservation ==
  \A left \in {count_dots(maze)} :
    /\ dots_eaten + left = total_dots
    /\ 0 <= dots_eaten /\ dots_eaten <= total_dots
    /\ (dots_eaten = total_dots) <=> (left = 0)

\* two dots and the power pellet of cell (1, 3) are consumed, 325 of 328 left
C26_Witness ==
  /\ build_maze[3][1] = 3 /\ maze[3][1] = 4
  /\ dots_eaten = 3 /\ total_dots = 328 /\ count_dots(maze) = 325

\* the cells the player can step to from cell c: a neighbour that can_move
\* lets it enter (PacMan.update asks nothing else), the columns next to the
\* grid included, where the wrap of x leads from one side to the other
PacNext(c) ==
  {IF n[1] < -1 THEN <<COLS, n[2]>> ELSE IF n[1] > COLS THEN <<-1, n[2]>> ELSE n :
     n \in {m \in {<<c[1] + DIRS4[i][1], c[2] + DIRS4[i][2]>> : i \in 1..Len(DIRS4)} :
              can_move(build_maze, m[1], m[2])}}

\* the cells reached from those of seen, of which frontier are the latest
RECURSIVE Flood(_, _)
Flood(seen, frontier) ==
  IF frontier = {} THEN seen
  ELSE LET nxt == UNION {PacNext(c) : c \in frontier} \ seen
       IN Flood(seen \cup nxt, nxt)

\* the cells the player can reach from its start cell
Reachable == Flood({pac_start}, {pac_start})

\* C27: every dot and every power pellet of the grid lies on a cell the player
\* can reach from its start cell (14, 18) by steps between passable cells
C27_Completable ==
  \A rc \in Cells : maze[rc[1]][rc[2]] \in {0, 3} => <<rc[2], rc[1]>> \in Reachable

\* entity e stands on a row of the grid, and not on a wall (1) or a house wall
\* (5) if its cell is in the grid
OffWalls(e) ==
  \A c \in {pixel_to_grid(e.x, e.y)} :
    /\ 0 <= c[2] /\ c[2] < MAZE_ROWS
    /\ InGrid(c) => maze[c[2]][c[1]] \notin {1, 5}

\* C28: in every state the player and every pursuer stand on a row of the
\* grid, and on a cell that is neither wall nor house wall whenever their
\* column is in the grid
C28_NoWall == OffWalls(pacman) /\ \A n \in GhostNames : OffWalls(ghosts[n])

\* the player and the four pursuers, chasing, are under way between cell
\* centres
C28_Witness ==
  /\ state = "PLAYING" /\ ~Centred(pacman) /\ pacman.dir # STOP
  /\ \A n \in GhostNames : ghosts[n].state = "CHASE" /\ ~Centred(ghosts[n])
====
